---- MODULE Spec2Model ----
(***************************************************************************)
(* Model of the user service (server/main.go): the two RPC handlers        *)
(* RegisterUser and LoginUser over a MongoDB collection "users" with three *)
(* unique indexes, and the pure helpers validateRegistration,              *)
(* normalizePhoneNumber and isAlphanumeric.                                *)
(*                                                                         *)
(* A Go string is modelled as a sequence of runes.  A rune is a one        *)
(* character TLA+ string, or the name "U+XXXX" of a code point outside     *)
(* ASCII.  Go's len() counts UTF-8 bytes, so it is modelled by ByteLen,    *)
(* never by Len.                                                           *)
(***************************************************************************)
EXTENDS Integers, Sequences, FiniteSets, Bags, TLC

VARIABLES store, calls, val, norm, server

vars == <<store, calls, val, norm, server>>

----------------------------------------------------------------------------
(* Bounds of the model. *)

\* number of RPC calls that can be in flight at the same time
MaxCalls == 2
\* longest generated user name of the validation harness, in runes
MaxNameLen == 4
\* longest generated body of a phone input of the normalisation harness
MaxPhoneBody == 12
\* longest generated user name / email input of the normalisation harness
MaxTextLen == 3

(* Program constants. *)

\* main.go:159  len(username) < 4
MinUserNameLen == 4
\* main.go:172  len(phone) != 12
PhoneLen == 12
\* main.go:184  len(phone) == 10
LocalPhoneLen == 10
\* main.go:186  len(phone) == 9
ShortPhoneLen == 9

----------------------------------------------------------------------------
(* Runes and the package "strings" / "unicode" functions the code calls. *)

\* U+00E9 (e acute) and U+00C9 (E acute): letters that take two UTF-8 bytes
TwoByteRunes == {"U+00E9", "U+00C9"}

\* unicode.IsSpace on the runes of the model
WhiteSpace == {" ", "\t"}

LowerLetters == {"a", "b", "c", "d", "e", "i", "j", "l", "m", "n", "o", "p", "x",
                 "U+00E9"}

UpperLetters == {"A", "B", "D", "E", "J", "U+00C9"}

\* unicode.IsLetter
IsLetter(r) == r \in LowerLetters \cup UpperLetters

\* unicode.IsNumber
IsNumber(r) == r \in {"0", "1", "2", "3", "4", "5", "6", "7", "8", "9"}

\* unicode.ToLower
LowerRune(r) ==
    CASE r = "A" -> "a"
      [] r = "B" -> "b"
      [] r = "D" -> "d"
      [] r = "E" -> "e"
      [] r = "J" -> "j"
      [] r = "U+00C9" -> "U+00E9"
      [] OTHER -> r

\* the number of UTF-8 bytes of one rune
RuneLen(r) == IF r \in TwoByteRunes THEN 2 ELSE 1

RECURSIVE ByteLen(_)
\* Go's len(s): the number of bytes of s
ByteLen(s) == IF s = <<>> THEN 0 ELSE RuneLen(Head(s)) + ByteLen(Tail(s))

RECURSIVE TrimLeft(_)
TrimLeft(s) ==
    IF s # <<>> /\ Head(s) \in WhiteSpace THEN TrimLeft(Tail(s)) ELSE s

RECURSIVE TrimRight(_)
TrimRight(s) ==
    IF s # <<>> /\ s[Len(s)] \in WhiteSpace
    THEN TrimRight(SubSeq(s, 1, Len(s) - 1))
    ELSE s

\* strings.TrimSpace
TrimSpace(s) == TrimRight(TrimLeft(s))

NotSpace(r) == r # " "

\* strings.ReplaceAll(s, " ", "")
RemoveSpaces(s) == SelectSeq(s, NotSpace)

\* strings.ToLower
ToLower(s) == [i \in 1..Len(s) |-> LowerRune(s[i])]

\* strings.HasPrefix
HasPrefix(s, p) == Len(s) >= Len(p) /\ SubSeq(s, 1, Len(p)) = p

\* strings.Contains(s, r) for a one-rune r
Contains(s, r) == \E i \in 1..Len(s) : s[i] = r

----------------------------------------------------------------------------
(* The pure helpers of main.go. *)

\* isAlphanumeric (main.go:193)
isAlphanumeric(s) == \A i \in 1..Len(s) : IsLetter(s[i]) \/ IsNumber(s[i])

KenyaPrefix == <<"2", "5", "4">>

\* a mutant: the switch of normalizePhoneNumber runs before the interior
\* spaces are removed
normalizeSwitchBeforeStrip(phone) ==
    LET p == TrimSpace(phone)
    IN  IF HasPrefix(p, <<"0">>) /\ ByteLen(p) = LocalPhoneLen
        THEN KenyaPrefix \o RemoveSpaces(Tail(p))
        ELSE IF HasPrefix(p, <<"7">>) /\ ByteLen(p) = ShortPhoneLen
        THEN KenyaPrefix \o RemoveSpaces(p)
        ELSE RemoveSpaces(p)

\* a mutant: the "0" case keeps the leading zero
normalizeKeepsZero(phone) ==
    LET p == RemoveSpaces(TrimSpace(phone))
    IN  IF HasPrefix(p, <<"0">>) /\ ByteLen(p) = LocalPhoneLen
        THEN KenyaPrefix \o p
        ELSE IF HasPrefix(p, <<"7">>) /\ ByteLen(p) = ShortPhoneLen
        THEN KenyaPrefix \o p
        ELSE p

\* normalizePhoneNumber (main.go:179)
normalizePhoneNumber(phone) ==
    LET p == RemoveSpaces(TrimSpace(phone))
    IN  IF HasPrefix(p, <<"0">>) /\ ByteLen(p) = LocalPhoneLen
        THEN KenyaPrefix \o Tail(p)
        ELSE IF HasPrefix(p, <<"7">>) /\ ByteLen(p) = ShortPhoneLen
        THEN KenyaPrefix \o p
        ELSE p

\* the error texts of validateRegistration; NoError is Go's nil
NoError == "nil"
ErrFullName == "full name is required"
ErrUserNameShort == "username must be at least 4 characters"
ErrUserNameChars == "username can only contain letters and numbers"
ErrEmail == "invalid email format"
ErrPhone == "phone must be in 254XXXXXXXXX format (12 digits)"

\* a mutant: the user name is checked before the full name
validateUserNameFirst(req) ==
    LET username == TrimSpace(req.user_name)
        email == TrimSpace(req.email)
        phone == normalizePhoneNumber(req.phone)
    IN  IF ByteLen(username) < MinUserNameLen THEN ErrUserNameShort
        ELSE IF ~isAlphanumeric(username) THEN ErrUserNameChars
        ELSE IF TrimSpace(req.full_name) = <<>> THEN ErrFullName
        ELSE IF ~Contains(email, "@") \/ ~Contains(email, ".") THEN ErrEmail
        ELSE IF ByteLen(phone) # PhoneLen \/ ~HasPrefix(phone, KenyaPrefix)
        THEN ErrPhone
        ELSE NoError

\* validateRegistration (main.go:153)
validateRegistration(req) ==
    LET username == TrimSpace(req.user_name)
        email == TrimSpace(req.email)
        phone == normalizePhoneNumber(req.phone)
    IN  IF TrimSpace(req.full_name) = <<>> THEN ErrFullName
        ELSE IF ByteLen(username) < MinUserNameLen THEN ErrUserNameShort
        ELSE IF ~isAlphanumeric(username) THEN ErrUserNameChars
        ELSE IF ~Contains(email, "@") \/ ~Contains(email, ".") THEN ErrEmail
        ELSE IF ByteLen(phone) # PhoneLen \/ ~HasPrefix(phone, KenyaPrefix)
        THEN ErrPhone
        ELSE NoError

\* the normalisation RegisterUser applies to user_name and email
\* (main.go:74, 75, 93, 94): strings.ToLower(strings.TrimSpace(s))
NormText(s) == ToLower(TrimSpace(s))

----------------------------------------------------------------------------
(* String literals of the inputs, written as sequences of runes. *)

\* "Jane Doe"
sJaneDoe == <<"J", "a", "n", "e", " ", "D", "o", "e">>

\* "  "
sBlank == <<" ", " ">>

\* "JaneD1"
sJaneD1 == <<"J", "a", "n", "e", "D", "1">>

\* " janed1 "
sJaned1Padded == <<" ", "j", "a", "n", "e", "d", "1", " ">>

\* "bob22"
sBob22 == <<"b", "o", "b", "2", "2">>

\* "ab1"
sAb1 == <<"a", "b", "1">>

\* "abc1"
sAbc1 == <<"a", "b", "c", "1">>

\* "abc-1"
sAbcDash1 == <<"a", "b", "c", "-", "1">>

\* two runes U+00E9: 4 bytes, 2 characters
sTwoAccented == <<"U+00E9", "U+00E9">>

\* "Jane@Example.com"
sJaneEmail == <<"J", "a", "n", "e", "@", "E", "x", "a", "m", "p", "l", "e", ".", "c", "o", "m">>

\* "jane@example.com"
sJaneEmailLower == <<"j", "a", "n", "e", "@", "e", "x", "a", "m", "p", "l", "e", ".", "c", "o", "m">>

\* " jane@example.com "
sJaneEmailPadded == <<" ", "j", "a", "n", "e", "@", "e", "x", "a", "m", "p", "l", "e", ".", "c", "o", "m", " ">>

\* "bob@x.io"
sBobEmail == <<"b", "o", "b", "@", "x", ".", "i", "o">>

\* "ann@x.io"
sAnnEmail == <<"a", "n", "n", "@", "x", ".", "i", "o">>

\* "jane.example"
sNoAtEmail == <<"j", "a", "n", "e", ".", "e", "x", "a", "m", "p", "l", "e">>

\* "jane@example"
sNoDotEmail == <<"j", "a", "n", "e", "@", "e", "x", "a", "m", "p", "l", "e">>

\* "0712345678"
sPhoneLocal == <<"0", "7", "1", "2", "3", "4", "5", "6", "7", "8">>

\* "712345678"
sPhoneShort == <<"7", "1", "2", "3", "4", "5", "6", "7", "8">>

\* "254712345678"
sPhoneFull == <<"2", "5", "4", "7", "1", "2", "3", "4", "5", "6", "7", "8">>

\* " 0712 345 678 "
sPhoneSpaced == <<" ", "0", "7", "1", "2", " ", "3", "4", "5", " ", "6", "7", "8", " ">>

\* "12345"
sPhoneBad == <<"1", "2", "3", "4", "5">>

\* "254abcdeabcd"
sPhoneLetters == <<"2", "5", "4", "a", "b", "c", "d", "e", "a", "b", "c", "d">>

\* "0700000000"
sPhoneBob == <<"0", "7", "0", "0", "0", "0", "0", "0", "0", "0">>

\* "0711111111"
sPhoneAnn == <<"0", "7", "1", "1", "1", "1", "1", "1", "1", "1">>

\* "x"
sPwX == <<"x">>

\* "y"
sPwY == <<"y">>

----------------------------------------------------------------------------
(* State.                                                                  *)
(*   store  the documents of the collection userdb.users                   *)
(*   calls  the RPC calls in flight: each handler's position and locals    *)
(*   val    the harness that applies validateRegistration to one input     *)
(*   norm   the harness that applies the normalisations to one input       *)
(*   server the process: the position of main and what it has set up       *)

\* pb.RegisterMessageRequest with every field empty
NoReq == [full_name |-> <<>>, user_name |-> <<>>, email |-> <<>>,
          phone |-> <<>>, password |-> <<>>]

ValIdle == [pc |-> "off", req |-> NoReq, err |-> NoError]

NormIdle == [pc |-> "off", kind |-> "none", in |-> <<>>, out |-> <<>>,
             again |-> <<>>]

\* every string of at most n runes of A
StringsUpTo(A, n) == UNION {[1..k -> A] : k \in 0..n}

----------------------------------------------------------------------------
(* The validation harness: one request, validateRegistration applied.     *)

NameRunes == {"a", "1", "-", " ", "U+00E9"}

ValUserNames ==
    StringsUpTo(NameRunes, MaxNameLen)
        \cup {sJaneD1, sJaned1Padded, sAb1, sAbc1, sAbcDash1, sTwoAccented}

ValRequests ==
    [full_name : {sJaneDoe, sBlank, <<>>},
     user_name : ValUserNames,
     email : {sJaneEmail, sJaneEmailPadded, sNoAtEmail, sNoDotEmail},
     phone : {sPhoneLocal, sPhoneFull, sPhoneBad, sPhoneLetters},
     password : {sPwX}]

Validate ==
    /\ val.pc = "ready"
    /\ val' = [val EXCEPT !.pc = "done", !.err = validateRegistration(val.req)]
    /\ UNCHANGED <<store, calls, norm, server>>

----------------------------------------------------------------------------
(* The normalisation harness: one phone, user name or email, normalised    *)
(* once and then once more.                                                *)

PhonePads == {<<>>, <<" ">>, <<"\t">>}

\* a head rune h, then k runes f, the g-th of them replaced by w
PhoneBody(h, f, k, g, w) == <<h>> \o [i \in 1..k |-> IF i = g THEN w ELSE f]

PhoneBodies ==
    UNION {{PhoneBody(h, f, k, g, w) :
                h \in {"0", "7", "2", "x"}, f \in {"1", "x", "U+00E9"},
                g \in 0..k, w \in WhiteSpace} : k \in 0..MaxPhoneBody}

PhoneInputs ==
    {l \o b \o t : l \in PhonePads, b \in PhoneBodies, t \in PhonePads}
        \cup {<<>>, <<" ">>, sPhoneLocal, sPhoneShort, sPhoneFull, sPhoneSpaced,
              sPhoneBad, sPhoneLetters}

TextInputs ==
    StringsUpTo({"a", "B", " ", "\t", "U+00C9"}, MaxTextLen)
        \cup {sJaneD1, sJaned1Padded, sJaneEmail, sJaneEmailPadded}

NormalizePhone ==
    /\ norm.pc = "ready" /\ norm.kind = "phone"
    /\ norm' = [norm EXCEPT !.pc = "once", !.out = normalizePhoneNumber(norm.in)]
    /\ UNCHANGED <<store, calls, val, server>>

NormalizePhoneAgain ==
    /\ norm.pc = "once" /\ norm.kind = "phone"
    /\ norm' = [norm EXCEPT !.pc = "twice",
                            !.again = normalizePhoneNumber(norm.out)]
    /\ UNCHANGED <<store, calls, val, server>>

NormalizeText ==
    /\ norm.pc = "ready" /\ norm.kind = "text"
    /\ norm' = [norm EXCEPT !.pc = "once", !.out = NormText(norm.in)]
    /\ UNCHANGED <<store, calls, val, server>>

NormalizeTextAgain ==
    /\ norm.pc = "once" /\ norm.kind = "text"
    /\ norm' = [norm EXCEPT !.pc = "twice", !.again = NormText(norm.out)]
    /\ UNCHANGED <<store, calls, val, server>>

----------------------------------------------------------------------------
(* The service: the collection, the store operations and the handlers.     *)
(*                                                                         *)
(* A document is the struct User without created_at and updated_at: both   *)
(* are time.Now() of the insert and nothing the handlers do reads them.    *)
(* The collection is a bag of documents (MongoDB tells equal documents     *)
(* apart by _id).  A store operation that fails with an error other than   *)
(* ErrNoDocuments or a duplicate key writes nothing.                       *)

\* the zero value of the struct User (main.go:29)
NoUser == [full_name |-> <<>>, user_name |-> <<>>, email |-> <<>>,
           phone |-> <<>>, password_hash |-> <<>>]

\* no response yet
NoResp == [code |-> "none", message |-> "", user_name |-> <<>>, email |-> <<>>,
           password |-> <<>>, success |-> FALSE]

\* a handler that has just been entered: op is the RPC, pc the handler's
\* position ("probe" and "insert" wait for that store round trip, "done" has
\* returned resp), findErr and insertErr the err of FindOne and InsertOne,
\* user the local of that name, finds and inserts the FindOne and InsertOne
\* round trips the call has issued
NewCall == [pc |-> "done", op |-> "none", req |-> NoReq, findErr |-> "none",
            insertErr |-> "none", user |-> NoUser, resp |-> NoResp,
            finds |-> 0, inserts |-> 0]

\* the calls in flight (calls is a bag: two calls can be in the same state)
InFlight == BagToSet(calls)

\* the framework dispatches another call: grpcServer.Serve is running
Enter(call) ==
    /\ server.pc = "serving"
    /\ BagCardinality(calls) < MaxCalls
    /\ calls' = calls (+) SetToBag({call})

\* the call in state old moves to state new
Move(old, new) ==
    /\ old \in InFlight
    /\ calls' = (calls (-) SetToBag({old})) (+) SetToBag({new})

\* the documents of the collection
Documents(coll) == BagToSet(coll)

\* status.Error(code, message)
StatusError(code, message) == [NoResp EXCEPT !.code = code, !.message = message]

\* the texts of the errors FindOne and InsertOne can fail with, other than
\* mongo.ErrNoDocuments and a duplicate key
StoreErrors == {"context deadline exceeded", "server selection error"}

\* a mutant: the response carries the text of the store error
InternalErrorLeaksCause(message, cause) == StatusError("Internal", cause)

\* what a handler returns on such an error (main.go:50-51, 86-87, 106-107):
\* the cause goes to the log, the message of the status is a fixed text
InternalError(message, cause) == StatusError("Internal", message)

\* the filter of the uniqueness probe (main.go:72): an $or over three fields
ExistingFilter(req) ==
    [email |-> NormText(req.email),
     user_name |-> NormText(req.user_name),
     phone |-> normalizePhoneNumber(req.phone)]

\* a mutant: the probe matches a document only when all three fields agree
MatchesAllFields(doc, filter) ==
    /\ doc.email = filter.email
    /\ doc.user_name = filter.user_name
    /\ doc.phone = filter.phone

\* a document matches the $or filter when any one field agrees
MatchesExisting(doc, filter) ==
    \/ doc.email = filter.email
    \/ doc.user_name = filter.user_name
    \/ doc.phone = filter.phone

\* a mutant: the lookup uses the request email as it came
LoginFilterRaw(req) == req.email

\* the filter of LoginUser (main.go:45): the lower-cased request email
LoginFilter(req) == ToLower(req.email)

\* a mutant: the document keeps the phone as it was sent
NewUserRawPhone(req) ==
    [full_name |-> TrimSpace(req.full_name),
     user_name |-> NormText(req.user_name),
     email |-> NormText(req.email),
     phone |-> req.phone,
     password_hash |-> req.password]

\* the document RegisterUser builds (main.go:91)
NewUser(req) ==
    [full_name |-> TrimSpace(req.full_name),
     user_name |-> NormText(req.user_name),
     email |-> NormText(req.email),
     phone |-> normalizePhoneNumber(req.phone),
     password_hash |-> req.password]

\* a mutant: one compound unique index over (email, user_name, phone)
IsDuplicateKeyCompound(coll, doc) ==
    \E d \in Documents(coll) :
        d.email = doc.email /\ d.user_name = doc.user_name /\ d.phone = doc.phone

\* the keys of the unique indexes NewUserService creates (main.go:131-144),
\* one index for each
UniqueKeys == {"email", "user_name", "phone"}

\* an insert is a duplicate-key error when a stored document has the same
\* value as the new one under the key of a unique index of the collection
IsDuplicateKey(coll, doc) ==
    \E d \in Documents(coll) : \E k \in server.indexes : d[k] = doc[k]

\* the requests the clients send
rJane == [full_name |-> sJaneDoe, user_name |-> sJaneD1, email |-> sJaneEmail,
          phone |-> sPhoneLocal, password |-> sPwX]

\* the user name of rJane after normalisation, nothing else of it
rSameUser == [full_name |-> sJaneDoe, user_name |-> sJaned1Padded,
              email |-> sBobEmail, phone |-> sPhoneBob, password |-> sPwY]

\* the email of rJane after normalisation, nothing else of it
rSameEmail == [full_name |-> sJaneDoe, user_name |-> sBob22,
               email |-> sJaneEmailPadded, phone |-> sPhoneAnn, password |-> sPwY]

\* the phone of rJane after normalisation, nothing else of it
rSamePhone == [full_name |-> sJaneDoe, user_name |-> sAbc1, email |-> sAnnEmail,
               phone |-> sPhoneShort, password |-> sPwX]

\* a user name of two two-byte letters
rAccented == [full_name |-> sJaneDoe, user_name |-> sTwoAccented,
              email |-> sAnnEmail, phone |-> sPhoneAnn, password |-> sPwX]

\* a phone of twelve bytes that starts with 254 and goes on with letters
rLetters == [full_name |-> sJaneDoe, user_name |-> sBob22, email |-> sBobEmail,
             phone |-> sPhoneLetters, password |-> sPwX]

\* a request that breaks every rule of validateRegistration
rInvalid == [full_name |-> sBlank, user_name |-> sAb1, email |-> sNoAtEmail,
             phone |-> sPhoneBad, password |-> sPwX]

\* rJane with a user name of three characters
rShortName == [full_name |-> sJaneDoe, user_name |-> sAb1, email |-> sJaneEmail,
               phone |-> sPhoneLocal, password |-> sPwX]

RegisterRequests ==
    {rJane, rSameUser, rSameEmail, rSamePhone, rAccented, rLetters, rInvalid,
     rShortName}

LoginEmails == {sJaneEmail, sJaneEmailPadded, sBobEmail}

\* a mutant: RegisterUser goes on to the probe without validating
RegisterUserNoValidation(req) ==
    /\ Enter([NewCall EXCEPT !.pc = "probe", !.op = "RegisterUser", !.req = req])
    /\ UNCHANGED <<store, val, norm, server>>

\* RegisterUser up to its first store round trip (main.go:63-78)
RegisterUserValidate(req) ==
    /\ LET err == validateRegistration(req)
       IN  Enter(IF err # NoError
                 THEN [NewCall EXCEPT !.op = "RegisterUser", !.req = req,
                                      !.resp = StatusError("InvalidArgument", err)]
                 ELSE [NewCall EXCEPT !.pc = "probe", !.op = "RegisterUser",
                                      !.req = req])
    /\ UNCHANGED <<store, val, norm, server>>

\* a mutant: the probe finds a document and the handler goes on to the insert
RegisterUserProbeFoundGoesOn(call) ==
    /\ call.pc = "probe"
    /\ \E d \in Documents(store) :
           MatchesExisting(d, ExistingFilter(call.req))
    /\ Move(call, [call EXCEPT !.pc = "insert", !.findErr = "nil",
                               !.finds = @ + 1])
    /\ UNCHANGED <<store, val, norm, server>>

\* the probe finds a document (main.go:81-84); nothing reads existingUser,
\* the local it is decoded into
RegisterUserProbeFound(call) ==
    /\ call.pc = "probe"
    /\ \E d \in Documents(store) :
           MatchesExisting(d, ExistingFilter(call.req))
    /\ Move(call, [call EXCEPT !.pc = "done", !.findErr = "nil",
                               !.finds = @ + 1,
                               !.resp = StatusError("AlreadyExists",
                       "user with this email, username or phone already exists")])
    /\ UNCHANGED <<store, val, norm, server>>

\* the probe finds nothing: mongo.ErrNoDocuments (main.go:81-89)
RegisterUserProbeNone(call) ==
    /\ call.pc = "probe"
    /\ \A d \in Documents(store) :
           ~MatchesExisting(d, ExistingFilter(call.req))
    /\ Move(call, [call EXCEPT !.pc = "insert", !.findErr = "ErrNoDocuments",
                               !.finds = @ + 1])
    /\ UNCHANGED <<store, val, norm, server>>

\* the probe fails with another error (main.go:85-88)
RegisterUserProbeFails(call) ==
    /\ call.pc = "probe"
    /\ \E cause \in StoreErrors :
           Move(call, [call EXCEPT !.pc = "done", !.findErr = "error",
                                   !.finds = @ + 1,
                                   !.resp = InternalError("internal server error",
                                                          cause)])
    /\ UNCHANGED <<store, val, norm, server>>

\* InsertOne accepts the document (main.go:91-101, 110-114)
RegisterUserInsertOk(call) ==
    /\ call.pc = "insert"
    /\ LET user == NewUser(call.req)
       IN  /\ ~IsDuplicateKey(store, user)
           /\ store' = store (+) SetToBag({user})
           /\ Move(call, [call EXCEPT !.pc = "done", !.insertErr = "nil",
                                      !.inserts = @ + 1,
                                      !.user = user,
                                      !.resp = [NoResp EXCEPT
                                          !.code = "OK",
                                          !.user_name = user.user_name,
                                          !.message = "Registered successfully",
                                          !.success = TRUE]])
    /\ UNCHANGED <<val, norm, server>>

\* a mutant: the write is an upsert, which replaces the documents that hold
\* one of the keys and reports success
RegisterUserInsertReplaces(call) ==
    /\ call.pc = "insert"
    /\ LET user == NewUser(call.req)
           rest == {d \in Documents(store) :
                       /\ d.email # user.email
                       /\ d.user_name # user.user_name
                       /\ d.phone # user.phone}
       IN  /\ IsDuplicateKey(store, user)
           /\ store' = SetToBag(rest \cup {user})
           /\ Move(call, [call EXCEPT !.pc = "done", !.insertErr = "nil",
                                      !.inserts = @ + 1,
                                      !.user = user,
                                      !.resp = [NoResp EXCEPT
                                          !.code = "OK",
                                          !.user_name = user.user_name,
                                          !.message = "Registered successfully",
                                          !.success = TRUE]])
    /\ UNCHANGED <<val, norm, server>>

\* InsertOne is rejected by a unique index (main.go:101-105)
RegisterUserInsertDuplicate(call) ==
    /\ call.pc = "insert"
    /\ LET user == NewUser(call.req)
       IN  /\ IsDuplicateKey(store, user)
           /\ Move(call, [call EXCEPT !.pc = "done", !.insertErr = "duplicate",
                                      !.inserts = @ + 1,
                                      !.user = user,
                                      !.resp = StatusError("AlreadyExists",
                                          "user with these details already exists")])
    /\ UNCHANGED <<store, val, norm, server>>

\* a mutant: a failed InsertOne is issued again, once
RegisterUserInsertFailsRetries(call) ==
    /\ call.pc = "insert"
    /\ \E cause \in StoreErrors :
           Move(call, [call EXCEPT !.pc = IF call.inserts = 0 THEN "insert"
                                         ELSE "done",
                                   !.insertErr = "error",
                                   !.inserts = @ + 1,
                                   !.user = NewUser(call.req),
                                   !.resp = IF call.inserts = 0 THEN NoResp
                                            ELSE InternalError(
                                                "failed to create user", cause)])
    /\ UNCHANGED <<store, val, norm, server>>

\* InsertOne fails with another error (main.go:101-108)
RegisterUserInsertFails(call) ==
    /\ call.pc = "insert"
    /\ \E cause \in StoreErrors :
           Move(call, [call EXCEPT !.pc = "done", !.insertErr = "error",
                                   !.inserts = @ + 1,
                                   !.user = NewUser(call.req),
                                   !.resp = InternalError("failed to create user",
                                                          cause)])
    /\ UNCHANGED <<store, val, norm, server>>

\* LoginUser finds the document (main.go:40-45, 55-59)
LoginUserFound(email) ==
    /\ LET req == [NoReq EXCEPT !.email = email]
       IN  \E d \in Documents(store) :
            /\ d.email = LoginFilter(req)
            /\ Enter([NewCall EXCEPT !.op = "LoginUser", !.req = req,
                                     !.findErr = "nil", !.finds = 1,
                                     !.user = d,
                                     !.resp = [NoResp EXCEPT
                                         !.code = "OK",
                                         !.email = d.email,
                                         !.user_name = d.user_name,
                                         !.password = d.password_hash]])
    /\ UNCHANGED <<store, val, norm, server>>

\* LoginUser finds nothing: mongo.ErrNoDocuments (main.go:45-49)
LoginUserNotFound(email) ==
    /\ LET req == [NoReq EXCEPT !.email = email]
       IN  /\ \A d \in Documents(store) : d.email # LoginFilter(req)
           /\ Enter([NewCall EXCEPT !.op = "LoginUser", !.req = req,
                                    !.findErr = "ErrNoDocuments",
                                    !.finds = 1,
                                    !.resp = StatusError("NotFound",
                                                         "Invalid credentials")])
    /\ UNCHANGED <<store, val, norm, server>>

\* the lookup of LoginUser fails with another error (main.go:45-52)
LoginUserFails(email) ==
    /\ \E cause \in StoreErrors :
           Enter([NewCall EXCEPT !.op = "LoginUser",
                                 !.req = [NoReq EXCEPT !.email = email],
                                 !.findErr = "error",
                                 !.finds = 1,
                                 !.resp = InternalError("login failed", cause)])
    /\ UNCHANGED <<store, val, norm, server>>

\* the handler has returned: the call is no longer in flight
Return(call) ==
    /\ call \in InFlight
    /\ call.pc = "done"
    /\ calls' = calls (-) SetToBag({call})
    /\ UNCHANGED <<store, val, norm, server>>

----------------------------------------------------------------------------
(* Startup: main and NewUserService.  pc is the position of main, db tells   *)
(* whether mongo.Connect has returned a client, indexes are the keys of the  *)
(* unique indexes of the collection, err is the step that was fatal.        *)

\* the process as main is entered
ServerStart == [pc |-> "main", db |-> FALSE, indexes |-> {}, err |-> "none"]

\* log.Fatal: the process exits
Fatal(step) ==
    /\ server' = [server EXCEPT !.pc = "exited", !.err = step]
    /\ UNCHANGED <<store, calls, val, norm>>

\* .env is loaded and MONGODB_URI is set (main.go:204-213)
LoadConfigOk ==
    /\ server.pc = "main"
    /\ server' = [server EXCEPT !.pc = "config"]
    /\ UNCHANGED <<store, calls, val, norm>>

\* .env cannot be loaded or MONGODB_URI is empty (main.go:205-213)
LoadConfigFails == server.pc = "main" /\ Fatal("config")

\* mongo.Connect returns a client (main.go:122-125)
ConnectOk ==
    /\ server.pc = "config"
    /\ server' = [server EXCEPT !.pc = "connected", !.db = TRUE]
    /\ UNCHANGED <<store, calls, val, norm>>

\* mongo.Connect fails: NewUserService returns the error and main exits
\* (main.go:123-125, 216-218)
ConnectFails == server.pc = "config" /\ Fatal("connect")

\* a mutant: the error of CreateMany is dropped and the service is returned
CreateIndexesFailsUnnoticed ==
    /\ server.pc = "connected"
    /\ server' = [server EXCEPT !.pc = "indexed"]
    /\ UNCHANGED <<store, calls, val, norm>>

\* Indexes().CreateMany creates the three unique indexes (main.go:131-149)
CreateIndexesOk ==
    /\ server.pc = "connected"
    /\ server' = [server EXCEPT !.pc = "indexed", !.indexes = UniqueKeys]
    /\ UNCHANGED <<store, calls, val, norm>>

\* CreateMany fails: NewUserService returns the error and main exits
\* (main.go:145-147, 216-218)
CreateIndexesFails == server.pc = "connected" /\ Fatal("indexes")

\* net.Listen returns the listener (main.go:221)
ListenOk ==
    /\ server.pc = "indexed"
    /\ server' = [server EXCEPT !.pc = "listening"]
    /\ UNCHANGED <<store, calls, val, norm>>

\* net.Listen fails (main.go:222-224)
ListenFails == server.pc = "indexed" /\ Fatal("listen")

\* the handlers are registered and grpcServer.Serve accepts calls
\* (main.go:226-230)
Serve ==
    /\ server.pc = "listening"
    /\ server' = [server EXCEPT !.pc = "serving"]
    /\ UNCHANGED <<store, calls, val, norm>>

\* grpcServer.Serve returns an error at once (main.go:230-232)
ServeFails == server.pc = "listening" /\ Fatal("serve")

----------------------------------------------------------------------------
(* Specifications. *)

\* the process as main is entered: an empty collection, no call in flight
Init ==
    /\ store = EmptyBag
    /\ calls = EmptyBag
    /\ val = ValIdle
    /\ norm = NormIdle
    /\ server = ServerStart

Next ==
    \/ LoadConfigOk
    \/ LoadConfigFails
    \/ ConnectOk
    \/ ConnectFails
    \/ CreateIndexesOk
    \/ CreateIndexesFails
    \/ ListenOk
    \/ ListenFails
    \/ Serve
    \/ ServeFails
    \/ \E req \in RegisterRequests : RegisterUserValidate(req)
    \/ \E call \in InFlight : RegisterUserProbeFound(call)
    \/ \E call \in InFlight : RegisterUserProbeNone(call)
    \/ \E call \in InFlight : RegisterUserProbeFails(call)
    \/ \E call \in InFlight : RegisterUserInsertOk(call)
    \/ \E call \in InFlight : RegisterUserInsertDuplicate(call)
    \/ \E call \in InFlight : RegisterUserInsertFails(call)
    \/ \E email \in LoginEmails : LoginUserFound(email)
    \/ \E email \in LoginEmails : LoginUserNotFound(email)
    \/ \E email \in LoginEmails : LoginUserFails(email)
    \/ \E call \in InFlight : Return(call)

Spec == Init /\ [][Next]_vars

InitValidate ==
    /\ store = EmptyBag
    /\ calls = EmptyBag
    /\ val \in [pc : {"ready"}, req : ValRequests, err : {NoError}]
    /\ norm = NormIdle
    /\ server = ServerStart

SpecValidate == InitValidate /\ [][Validate]_vars

InitNormalize ==
    /\ store = EmptyBag
    /\ calls = EmptyBag
    /\ val = ValIdle
    /\ server = ServerStart
    /\ norm \in [pc : {"ready"}, kind : {"phone"}, in : PhoneInputs,
                 out : {<<>>}, again : {<<>>}]
               \cup [pc : {"ready"}, kind : {"text"}, in : TextInputs,
                     out : {<<>>}, again : {<<>>}]

NextNormalize ==
    \/ NormalizePhone
    \/ NormalizePhoneAgain
    \/ NormalizeText
    \/ NormalizeTextAgain

SpecNormalize == InitNormalize /\ [][NextNormalize]_vars

----------------------------------------------------------------------------
(* Properties. *)

\* the request q and the document d have the same normalised email, or the
\* same normalised user name, or the same normalised phone
SharesIdentity(q, d) ==
    \/ ToLower(TrimSpace(q.email)) = d.email
    \/ ToLower(TrimSpace(q.user_name)) = d.user_name
    \/ normalizePhoneNumber(q.phone) = d.phone

\* two requests agree on at least one normalised identity field
AgreeOnIdentity(q1, q2) ==
    \/ ToLower(TrimSpace(q1.email)) = ToLower(TrimSpace(q2.email))
    \/ ToLower(TrimSpace(q1.user_name)) = ToLower(TrimSpace(q2.user_name))
    \/ normalizePhoneNumber(q1.phone) = normalizePhoneNumber(q2.phone)

\* C1: in every reachable state no two stored accounts have the same email,
\* none the same user_name and none the same phone (a document stored twice
\* counts as two accounts).
C1_UniqueIdentityFields ==
    \A a \in Documents(store) :
        /\ CopiesIn(a, store) = 1
        /\ \A b \in Documents(store) :
               a # b => /\ a.email # b.email
                        /\ a.user_name # b.user_name
                        /\ a.phone # b.phone

\* C1 witness: two accounts are stored and a racing insert was rejected
C1_Witness ==
    /\ Cardinality(Documents(store)) >= 2
    /\ \E call \in InFlight : call.insertErr = "duplicate"

\* two different calls in flight are in the states r1 and r2
TwoCalls(r1, r2) ==
    /\ r1 \in InFlight /\ r2 \in InFlight
    /\ r1 # r2 \/ CopiesIn(r1, calls) >= 2

\* C2: of two concurrent RegisterUser calls that agree on an identity field
\* and both got "no match" from the probe, at most one creates an account,
\* and a call whose insert hit the duplicate-key rejection ends with
\* AlreadyExists, not with success and not with Internal.
C2_RaceCreatesAtMostOne ==
    /\ \A r1, r2 \in InFlight :
           ( /\ TwoCalls(r1, r2)
             /\ r1.op = "RegisterUser" /\ r2.op = "RegisterUser"
             /\ r1.findErr = "ErrNoDocuments" /\ r2.findErr = "ErrNoDocuments"
             /\ AgreeOnIdentity(r1.req, r2.req) )
           => /\ ~(r1.insertErr = "nil" /\ r2.insertErr = "nil")
              /\ ~(r1.resp.success /\ r2.resp.success)
    /\ \A r \in InFlight :
           r.insertErr = "duplicate"
           => /\ r.pc = "done"
              /\ r.resp.code = "AlreadyExists"
              /\ ~r.resp.success

\* C2 witness: both calls passed the probe, one created the account and the
\* other was rejected by the unique index
C2_Witness ==
    \E r1, r2 \in InFlight :
        /\ r1.findErr = "ErrNoDocuments"
        /\ r2.findErr = "ErrNoDocuments"
        /\ AgreeOnIdentity(r1.req, r2.req)
        /\ r1.req # r2.req
        /\ r1.resp.success
        /\ r2.insertErr = "duplicate"
        /\ r2.resp.code = "AlreadyExists"

\* this step enters a call, which is in state new after it
Entered(new) == calls' = calls (+) SetToBag({new})

\* this step moves a call in flight from state old to state new
Moved(old, new) ==
    /\ old # new
    /\ calls' = (calls (-) SetToBag({old})) (+) SetToBag({new})

\* C3: while an account is stored, a step of a RegisterUser call with valid
\* input that shares the normalised email, user_name or phone with it, and
\* whose store operation does not fail, creates no account and can only end
\* the call with AlreadyExists (the call never gets past the probe).
C3_StoredIdentityIsRejected ==
    [][\A new \in BagToSet(calls') :
         ( /\ new.op = "RegisterUser"
           /\ validateRegistration(new.req) = NoError
           /\ \E d \in Documents(store) : SharesIdentity(new.req, d)
           /\ new.findErr # "error"
           /\ new.insertErr # "error" )
         => /\ Entered(new) => store' = store /\ new.pc = "probe"
            /\ \A old \in InFlight :
                   Moved(old, new)
                   => /\ store' = store
                      /\ new.pc = "done"
                      /\ new.resp.code = "AlreadyExists"
                      /\ ~new.resp.success]_vars

\* C3 witness: the account of rJane is stored and a request that shares only
\* its email was rejected by the probe
C3_Witness ==
    /\ NewUser(rJane) \in Documents(store)
    /\ \E call \in InFlight :
        /\ call.req = rSameEmail
        /\ call.pc = "done"
        /\ call.findErr = "nil"
        /\ call.resp.code = "AlreadyExists"

\* what C4 says of the LoginUser call that ends in state new in this step
C4LoginResult(new) ==
    LET e == ToLower(new.req.email)
        r == new.resp
    IN  IF \E d \in Documents(store) : d.email = e
        THEN /\ r.code = "OK"
             /\ \E d \in Documents(store) :
                    /\ d.email = e
                    /\ r.email = d.email
                    /\ r.user_name = d.user_name
                    /\ r.password = d.password_hash
        ELSE r.code = "NotFound" /\ r.message = "Invalid credentials"

\* C4 as stated: LoginUser looks up by the lower-cased request email only; no
\* account with that email gives NotFound "Invalid credentials", an account
\* with that email gives success with its stored email, user_name and
\* password_hash.
C4_LoginByEmail_AsStated ==
    [][\A new \in BagToSet(calls') :
         (Entered(new) /\ new.op = "LoginUser")
         => new.pc = "done" /\ C4LoginResult(new)]_vars

\* C4 amended: the same, for every LoginUser call whose lookup does not fail
\* with a store error; a lookup that fails ends with Internal.
C4_LoginByEmail ==
    [][\A new \in BagToSet(calls') :
         (Entered(new) /\ new.op = "LoginUser")
         => /\ new.pc = "done"
            /\ IF new.findErr = "error"
               THEN new.resp.code = "Internal"
               ELSE C4LoginResult(new)]_vars

\* C4 witness: a login with "Jane@Example.com" returned the account stored
\* under "jane@example.com"
C4_Witness ==
    \E call \in InFlight :
        /\ call.op = "LoginUser"
        /\ call.req.email = sJaneEmail
        /\ call.resp.code = "OK"
        /\ call.resp.email = sJaneEmailLower
        /\ call.resp.user_name = <<"j", "a", "n", "e", "d", "1">>
        /\ call.resp.password = sPwX

\* the rules of validateRegistration in their order, each with its error;
\* "length" is Go's len, the number of bytes
C5Rules(q) ==
    << [ok |-> \E i \in 1..Len(q.full_name) : q.full_name[i] \notin WhiteSpace,
        err |-> "full name is required"],
       [ok |-> ByteLen(TrimSpace(q.user_name)) >= 4,
        err |-> "username must be at least 4 characters"],
       [ok |-> \A i \in 1..Len(TrimSpace(q.user_name)) :
                   LET r == TrimSpace(q.user_name)[i]
                   IN  IsLetter(r) \/ IsNumber(r),
        err |-> "username can only contain letters and numbers"],
       [ok |-> \E i, j \in 1..Len(q.email) :
                   q.email[i] = "@" /\ q.email[j] = ".",
        err |-> "invalid email format"],
       [ok |-> LET p == normalizePhoneNumber(q.phone)
               IN  ByteLen(p) = 12 /\ Len(p) >= 3
                   /\ p[1] = "2" /\ p[2] = "5" /\ p[3] = "4",
        err |-> "phone must be in 254XXXXXXXXX format (12 digits)"] >>

\* the error of the earliest violated rule, "nil" when none is violated
C5FirstViolated(q) ==
    LET rules == C5Rules(q)
        bad == {i \in 1..Len(rules) : ~rules[i].ok}
    IN  IF bad = {} THEN "nil"
        ELSE rules[CHOOSE i \in bad : \A j \in bad : i <= j].err

C6Stripped(p) ==
    LET idx == {i \in 1..Len(p) : p[i] \notin WhiteSpace}
    IN  IF idx = {} THEN <<>>
        ELSE LET lo == CHOOSE i \in idx : \A j \in idx : i <= j
                 hi == CHOOSE i \in idx : \A j \in idx : j <= i
             IN  SelectSeq(SubSeq(p, lo, hi), NotSpace)

\* the result C6 states for the input p; "length" is Go's len
C6Expected(p) ==
    LET r == C6Stripped(p)
    IN  IF r # <<>> /\ r[1] = "0" /\ ByteLen(r) = 10
        THEN <<"2", "5", "4">> \o SubSeq(r, 2, Len(r))
        ELSE IF r # <<>> /\ r[1] = "7" /\ ByteLen(r) = 9
        THEN <<"2", "5", "4">> \o r
        ELSE r

\* C6: normalizePhoneNumber trims surrounding white space and removes all
\* spaces, then turns a 10-long "0..." into "254" and the rest after the "0",
\* a 9-long "7..." into "254" and the whole, and returns anything else
\* unchanged ("0712345678" and "712345678" give "254712345678";
\* "254712345678" and "12345" come back unchanged).
C6_NormalizePhoneCases ==
    (norm.kind = "phone" /\ norm.pc # "ready") =>
        /\ norm.out = C6Expected(norm.in)
        /\ norm.in \in {sPhoneLocal, sPhoneShort} => norm.out = sPhoneFull
        /\ norm.in \in {sPhoneFull, sPhoneBad} => norm.out = norm.in

\* C6 witness: "0712345678" was normalised to "254712345678"
C6_Witness ==
    /\ norm.kind = "phone"
    /\ norm.pc = "once"
    /\ norm.in = sPhoneLocal
    /\ norm.out = sPhoneFull

\* C7: normalising a normalised value changes nothing: for a phone p,
\* normalizePhoneNumber(normalizePhoneNumber(p)) = normalizePhoneNumber(p),
\* and for a user name or email, trim-then-lower-case of a trimmed and
\* lower-cased value is that value.
C7_NormalizationIdempotent ==
    norm.pc = "twice" => norm.again = norm.out

\* C7 witness: " 0712 345 678 " was normalised twice, and changed the first
\* time only
C7_Witness ==
    /\ norm.pc = "twice"
    /\ norm.kind = "phone"
    /\ norm.in = sPhoneSpaced
    /\ norm.out = sPhoneFull
    /\ norm.out # norm.in
    /\ norm.again = norm.out

\* C8: the phone of every stored account has exactly 12 characters, starts
\* with "254" and is made of decimal digits only.
C8_StoredPhoneIsTwelveDigits ==
    \A d \in Documents(store) :
        /\ Len(d.phone) = 12
        /\ SubSeq(d.phone, 1, 3) = <<"2", "5", "4">>
        /\ \A i \in 1..Len(d.phone) :
               d.phone[i] \in {"0", "1", "2", "3", "4", "5", "6", "7", "8", "9"}

\* C9: every stored account has a full_name that is non-empty after
\* trimming, a user_name that is trimmed, lower-cased, at least 4 characters
\* long and made of letters and digits only, and an email that is trimmed,
\* lower-cased and contains "@" and ".".
C9_StoredFieldsWellFormed ==
    \A d \in Documents(store) :
        /\ TrimSpace(d.full_name) # <<>>
        /\ TrimSpace(d.user_name) = d.user_name
        /\ ToLower(d.user_name) = d.user_name
        /\ Len(d.user_name) >= 4
        /\ \A i \in 1..Len(d.user_name) :
               IsLetter(d.user_name[i]) \/ IsNumber(d.user_name[i])
        /\ TrimSpace(d.email) = d.email
        /\ ToLower(d.email) = d.email
        /\ Contains(d.email, "@") /\ Contains(d.email, ".")

\* C10: a RegisterUser call that succeeds adds exactly one account, whose
\* user_name and email are the trimmed, lower-cased request values, whose
\* phone is normalizePhoneNumber of the request phone and whose
\* password_hash is the request password; the response carries that
\* user_name and success = true ("JaneD1", "Jane@Example.com", "0712345678"
\* are stored as "janed1", "jane@example.com", "254712345678").
C10_SuccessStoresNormalizedAccount ==
    [][\A old \in InFlight, new \in BagToSet(calls') :
         (Moved(old, new) /\ new.op = "RegisterUser" /\ new.resp.code = "OK")
         => LET q == new.req
            IN  \E d \in Documents(store') :
                 /\ store' = store (+) SetToBag({d})
                 /\ d.user_name = ToLower(TrimSpace(q.user_name))
                 /\ d.email = ToLower(TrimSpace(q.email))
                 /\ d.phone = normalizePhoneNumber(q.phone)
                 /\ d.password_hash = q.password
                 /\ new.resp.user_name = d.user_name
                 /\ new.resp.success
                 /\ q = rJane =>
                        /\ d.user_name = <<"j", "a", "n", "e", "d", "1">>
                        /\ d.email = sJaneEmailLower
                        /\ d.phone = sPhoneFull]_vars

\* C10 witness: the registration of rJane succeeded and its account is stored
C10_Witness ==
    \E call \in InFlight :
        /\ call.req = rJane
        /\ call.resp.code = "OK"
        /\ call.resp.success
        /\ call.resp.user_name = <<"j", "a", "n", "e", "d", "1">>
        /\ \E d \in Documents(store) :
               /\ d.user_name = <<"j", "a", "n", "e", "d", "1">>
               /\ d.email = sJaneEmailLower
               /\ d.phone = sPhoneFull
               /\ d.password_hash = sPwX

\* C11: a probe, lookup or insert that fails with an error other than
\* not-found or duplicate-key ends the call with Internal and a fixed message
\* that does not depend on the cause, and the call creates no account.
C11_StoreFailureIsInternal ==
    [][\A new \in BagToSet(calls') :
         ( /\ new.findErr = "error" \/ new.insertErr = "error"
           /\ Entered(new) \/ \E old \in InFlight : Moved(old, new) )
         => /\ store' = store
            /\ new.pc = "done"
            /\ new.resp.code = "Internal"
            /\ ~new.resp.success
            /\ new.resp.user_name = <<>> /\ new.resp.email = <<>>
            /\ new.resp.password = <<>>
            /\ new.resp.message =
                   IF new.op = "LoginUser" THEN "login failed"
                   ELSE IF new.findErr = "error" THEN "internal server error"
                   ELSE "failed to create user"]_vars

\* C11 witness: the insert of a call failed while another account was
\* stored, and the call answered Internal
C11_Witness ==
    /\ store # EmptyBag
    /\ \E call \in InFlight :
        /\ call.insertErr = "error"
        /\ call.resp.code = "Internal"
        /\ call.resp.message = "failed to create user"
        /\ call.user \notin Documents(store)

\* C12: a RegisterUser call whose input fails validation ends with
\* InvalidArgument and the message of the violated rule, without a probe and
\* without an insert, and leaves the stored accounts unchanged, whatever the
\* store holds.
C12_InvalidInputIsRejectedUnprobed ==
    [][/\ \A new \in BagToSet(calls') :
            ( /\ Entered(new)
              /\ new.op = "RegisterUser"
              /\ C5FirstViolated(new.req) # "nil" )
            => /\ store' = store
               /\ new.pc = "done"
               /\ new.resp.code = "InvalidArgument"
               /\ new.resp.message = C5FirstViolated(new.req)
               /\ ~new.resp.success
               /\ new.findErr = "none"
               /\ new.insertErr = "none"
       /\ \A old \in InFlight, new \in BagToSet(calls') :
            Moved(old, new)
            => old.pc # "done" /\ C5FirstViolated(old.req) = "nil"]_vars

\* C12 witness: accounts are stored, and two invalid requests were each
\* rejected with the message of their own first violated rule
C12_Witness ==
    /\ store # EmptyBag
    /\ \E c1, c2 \in InFlight :
        /\ c1.req = rInvalid /\ c2.req = rShortName
        /\ c1.resp.code = "InvalidArgument"
        /\ c1.resp.message = "full name is required"
        /\ c2.resp.code = "InvalidArgument"
        /\ c2.resp.message = "username must be at least 4 characters"

\* C13: a RegisterUser call goes Start -> Validate -> ProbeUniqueness ->
\* Persist -> Respond and stops at the first failing step: it reaches the
\* insert only with valid input and "no match" from its own probe, a probe
\* that finds a match or fails ends the call without an insert, and the call
\* answers success only in the step in which the store accepts its insert.
C13_RegisterStateMachine ==
    [][\A new \in BagToSet(calls') :
         new.op = "RegisterUser" =>
           /\ Entered(new) =>
                /\ ~new.resp.success
                /\ new.findErr = "none" /\ new.insertErr = "none"
                /\ \/ new.pc = "probe" /\ C5FirstViolated(new.req) = "nil"
                   \/ /\ new.pc = "done" /\ C5FirstViolated(new.req) # "nil"
                      /\ new.resp.code = "InvalidArgument"
           /\ \A old \in InFlight :
                Moved(old, new) =>
                  \/ /\ old.pc = "probe" /\ new.pc = "insert"
                     /\ C5FirstViolated(new.req) = "nil"
                     /\ new.findErr = "ErrNoDocuments" /\ new.insertErr = "none"
                     /\ ~new.resp.success
                     /\ store' = store
                  \/ /\ old.pc = "probe" /\ new.pc = "done"
                     /\ new.findErr \in {"nil", "error"} /\ new.insertErr = "none"
                     /\ new.resp.code =
                            IF new.findErr = "nil" THEN "AlreadyExists"
                            ELSE "Internal"
                     /\ ~new.resp.success
                     /\ store' = store
                  \/ /\ old.pc = "insert" /\ new.pc = "done"
                     /\ old.findErr = "ErrNoDocuments"
                     /\ new.findErr = "ErrNoDocuments"
                     /\ new.insertErr \in {"nil", "duplicate", "error"}
                     /\ new.resp.success <=> new.insertErr = "nil"
                     /\ new.resp.success <=> new.resp.code = "OK"
                     /\ new.resp.success <=> store' # store]_vars

\* C13 witness: one call went through all the steps and succeeded, another
\* stopped at the probe
C13_Witness ==
    \E c1, c2 \in InFlight :
        /\ c1.op = "RegisterUser" /\ c2.op = "RegisterUser"
        /\ c1.pc = "done" /\ c1.findErr = "ErrNoDocuments"
        /\ c1.insertErr = "nil" /\ c1.resp.success
        /\ c2.pc = "done" /\ c2.findErr = "nil" /\ c2.insertErr = "none"
        /\ c2.resp.code = "AlreadyExists"

\* this step is a step of the call that is in state new after it
StepOf(new) == Entered(new) \/ \E old \in InFlight : Moved(old, new)

\* C14: the stored accounts only grow and never change: a step of LoginUser
\* and a step of a RegisterUser call that does not succeed leave the store as
\* it is, and a successful RegisterUser adds one account and leaves every
\* stored one in place.
C14_StoreOnlyGrows ==
    [][/\ \A d \in Documents(store) : CopiesIn(d, store') >= CopiesIn(d, store)
       /\ store' # store =>
            /\ BagCardinality(store') = BagCardinality(store) + 1
            /\ \E new \in BagToSet(calls') :
                 StepOf(new) /\ new.op = "RegisterUser" /\ new.resp.success
       /\ \A new \in BagToSet(calls') :
            (StepOf(new) /\ (new.op = "LoginUser" \/ ~new.resp.success))
            => store' = store]_vars

\* C14 witness: two accounts are stored, a login has read one of them and a
\* registration was turned down
C14_Witness ==
    /\ NewUser(rJane) \in Documents(store)
    /\ BagCardinality(store) >= 2
    /\ \E c1, c2 \in InFlight :
        /\ c1.op = "LoginUser" /\ c1.resp.code = "OK"
        /\ c2.op = "RegisterUser" /\ c2.resp.code = "AlreadyExists"

\* C15: a call is served only once the store connection is established and
\* the three unique indexes exist; a failed connection or index creation
\* ends the process, which then never serves.
C15_ServesOnlyAfterSetup ==
    [][/\ calls' # EmptyBag => server'.pc = "serving"
       /\ server'.pc \in {"listening", "serving"} =>
            /\ server'.db
            /\ server'.indexes = {"email", "user_name", "phone"}
            /\ server'.err = "none"
       /\ (server.pc = "config" /\ ~server'.db) => server'.pc \in {"config", "exited"}
       /\ (server.pc = "connected" /\ server'.indexes # {"email", "user_name", "phone"})
            => server'.pc \in {"connected", "exited"}
       /\ server.pc = "exited" => server'.pc = "exited" /\ calls' = EmptyBag
       /\ server.pc # "serving" => calls' = EmptyBag]_vars

\* C15 witness: the server is serving with the connection and the indexes in
\* place, and has registered an account
C15_Witness ==
    /\ server.pc = "serving"
    /\ server.db
    /\ server.indexes = {"email", "user_name", "phone"}
    /\ calls # EmptyBag
    /\ store # EmptyBag

\* C15 witness of the other case: the index creation failed and the process
\* has exited without a call
C15_AbortReached ==
    /\ server.pc = "exited"
    /\ server.err = "indexes"
    /\ calls = EmptyBag

\* the store round trip a call waits for returns, with whatever result
CallStep(call) ==
    \/ RegisterUserProbeFails(call)
    \/ RegisterUserInsertFails(call)
    \/ RegisterUserProbeFound(call)
    \/ RegisterUserProbeNone(call)
    \/ RegisterUserInsertOk(call)
    \/ RegisterUserInsertDuplicate(call)

\* the outcomes of a call
C16Outcomes == {"OK", "InvalidArgument", "AlreadyExists", "NotFound", "Internal"}

\* C16: every call ends with exactly one outcome and never retries.  A call
\* that waits for a store round trip can always take the step in which the
\* round trip returns; a step of a call only moves it forward (probe, then
\* insert, then done), so a call ends after at most two round trips; a call
\* that has ended has one of the five outcomes and never changes; a
\* RegisterUser call has issued at most one FindOne and at most one InsertOne
\* and a LoginUser call exactly one FindOne.
C16_EndsOnceWithoutRetry ==
    /\ [](\A c \in InFlight : c.pc # "done" => ENABLED CallStep(c))
    /\ [][\A new \in BagToSet(calls') :
            /\ Entered(new) =>
                 IF new.op = "LoginUser"
                 THEN new.pc = "done" /\ new.finds = 1 /\ new.inserts = 0
                 ELSE /\ new.op = "RegisterUser"
                      /\ new.pc \in {"probe", "done"}
                      /\ new.finds = 0 /\ new.inserts = 0
            /\ \A old \in InFlight :
                 Moved(old, new) =>
                   /\ old.op = "RegisterUser" /\ new.op = old.op
                   /\ new.req = old.req
                   /\ <<old.pc, new.pc>> \in {<<"probe", "insert">>,
                                              <<"probe", "done">>,
                                              <<"insert", "done">>}
                   /\ old.pc = "probe" =>
                        old.finds = 0 /\ new.finds = 1 /\ new.inserts = 0
                   /\ old.pc = "insert" =>
                        old.inserts = 0 /\ new.inserts = 1 /\ new.finds = 1
            /\ StepOf(new) =>
                 /\ new.pc = "done" <=> new.resp.code \in C16Outcomes
                 /\ new.pc # "done" => new.resp = NoResp
                 /\ new.resp.success <=>
                      (new.op = "RegisterUser" /\ new.resp.code = "OK")
                 /\ new.resp.code = "NotFound" => new.op = "LoginUser"
                 /\ new.resp.code \in {"InvalidArgument", "AlreadyExists"}
                      => new.op = "RegisterUser"]_vars

\* C16 witness: a RegisterUser call has ended in success after one probe and
\* one insert, and a LoginUser call has ended after one lookup
C16_Witness ==
    \E c1, c2 \in InFlight :
        /\ c1.op = "RegisterUser" /\ c1.pc = "done" /\ c1.resp.code = "OK"
        /\ c1.finds = 1 /\ c1.inserts = 1
        /\ c2.op = "LoginUser" /\ c2.pc = "done" /\ c2.resp.code = "OK"
        /\ c2.finds = 1 /\ c2.inserts = 0

\* C17: validation and conflict outcomes are stable under resubmission.
\* While a RegisterUser call that ended with InvalidArgument is on record, a
\* call that enters with the same request ends at once with the same code
\* and message, whatever the store holds; while a RegisterUser call that
\* ended with AlreadyExists is on record, no step of a call with the same
\* request succeeds.
C17_RejectionsAreStable ==
    [][\A h \in InFlight, new \in BagToSet(calls') :
         ( /\ h.op = "RegisterUser" /\ h.pc = "done"
           /\ new.op = "RegisterUser" /\ new.req = h.req
           /\ StepOf(new) )
         => /\ h.resp.code = "InvalidArgument" =>
                 /\ Entered(new)
                 /\ new.pc = "done"
                 /\ new.resp = h.resp
                 /\ store' = store
            /\ h.resp.code = "AlreadyExists" =>
                 /\ ~new.resp.success
                 /\ new.resp.code # "OK"
                 /\ store' = store]_vars

\* C17 witness: a request was turned down with AlreadyExists by the unique
\* index, and the same request, sent again, was turned down by the probe
C17_Witness ==
    \E c1, c2 \in InFlight :
        /\ c1.op = "RegisterUser" /\ c2.op = "RegisterUser"
        /\ c1.req = c2.req
        /\ c1.insertErr = "duplicate" /\ c1.resp.code = "AlreadyExists"
        /\ c2.findErr = "nil" /\ c2.resp.code = "AlreadyExists"

\* C17 witness of the other case: accounts are stored and an invalid request
\* was turned down twice with the same message
C17_InvalidTwice ==
    /\ store # EmptyBag
    /\ \E c \in InFlight :
        /\ c.op = "RegisterUser" /\ c.resp.code = "InvalidArgument"
        /\ CopiesIn(c, calls) = 2

\* C18: register-then-login round trip.  While a RegisterUser call that
\* succeeded for a request with email e and password p is on record, a
\* LoginUser call given the same string e whose lookup does not fail with a
\* store error succeeds and returns the account of that registration: its
\* stored email and user_name and the password p.
C18_RegisterThenLogin ==
    [][\A h \in InFlight, new \in BagToSet(calls') :
         ( /\ h.op = "RegisterUser" /\ h.pc = "done" /\ h.resp.success
           /\ Entered(new)
           /\ new.op = "LoginUser"
           /\ new.req.email = h.req.email
           /\ new.findErr # "error" )
         => /\ new.resp.code = "OK"
            /\ new.resp.email = h.user.email
            /\ new.resp.user_name = h.user.user_name
            /\ new.resp.password = h.req.password]_vars

====
